---- MODULE Spec2Model ----
(***************************************************************************)
(* HR analytics dashboard: the one-shot ingestion script                   *)
(* (setup_database.py) and the Streamlit dashboard (app.py) over the       *)
(* SQLite table `employees`.                                               *)
(*                                                                         *)
(* Data representation.  A column label is a sequence of one-character     *)
(* strings, so that re.sub works on characters.  A cell is a sequence:     *)
(* <<>> is NULL/NaN, <<x>> the string x, <<n, 1>> the number n and         *)
(* <<n, 2>> the float n/2 for odd n (a median of an even number of         *)
(* integers).  A DataFrame or a table is                                   *)
(* [columns |-> sequence of labels, rows |-> sequence of cell sequences],  *)
(* positional like pandas.                                                 *)
(***************************************************************************)
EXTENDS Integers, Sequences, FiniteSets, TLC

VARIABLES
    csv,          \* the CSV file at CSV_FILE_PATH: NoFile or its parsed contents
    db,           \* hr_database.db: [exists, columns, rows] of table employees
    out,          \* what setup_database printed last
    pc,           \* per session: where the script run of app.py stands
    submitted,    \* per session: the form button that triggered the run
    department,   \* per session: the value of the department selectbox
    df,           \* per session: the DataFrame loaded at the top of the run
    df_filtered,  \* per session: the filtered view of the run
    kpi,          \* per session: the key metrics of the run
    msg,          \* per session: the message the run put in the sidebar
    stmt          \* per session: the statement the run passed to execute_query

vars == <<csv, db, out, pc, submitted, department, df, df_filtered, kpi, msg, stmt>>

appVars == <<pc, submitted, department, df, df_filtered, kpi, msg, stmt>>

----------------------------------------------------------------------------
(* Bounds of the model *)

MaxSrcRows == 3

MaxDashRows == 2

MaxRows == 3

IdSlack == 1

NumSessions == 2

----------------------------------------------------------------------------
(* Cells *)

NULL == <<>>

Str(x) == <<x>>

Num(n) == <<n, 1>>

IsNull(c) == c = NULL

----------------------------------------------------------------------------
(* Column labels *)

LblEmployeeID == <<"E","m","p","l","o","y","e","e","I","D">>

LblDepartment == <<"D","e","p","a","r","t","m","e","n","t">>

LblMonthlyIncome == <<"M","o","n","t","h","l","y","I","n","c","o","m","e">>

LblAttrition == <<"A","t","t","r","i","t","i","o","n">>

LblYearsAtCompany == <<"Y","e","a","r","s","A","t","C","o","m","p","a","n","y">>

\* raw labels as a CSV header may spell them
RawMonthlyIncome == <<"M","o","n","t","h","l","y"," ","I","n","c","o","m","e"," ","(","$",")">>

RawYearsAtCompany == <<"Y","e","a","r","s"," ","A","t"," ","C","o","m","p","a","n","y">>

RawNotes == <<"%">>

\* the character class [0-9a-zA-Z_] of the regular expression
AllowedChars ==
    {"0","1","2","3","4","5","6","7","8","9","_",
     "a","b","c","d","e","f","g","h","i","j","k","l","m",
     "n","o","p","q","r","s","t","u","v","w","x","y","z",
     "A","B","C","D","E","F","G","H","I","J","K","L","M",
     "N","O","P","Q","R","S","T","U","V","W","X","Y","Z"}

\* re.sub(r'[^0-9a-zA-Z_]', '', col)
re_sub(col) == SelectSeq(col, LAMBDA ch : ch \in AllowedChars)

----------------------------------------------------------------------------
(* DataFrame helpers *)

HasColumn(frame, name) == \E i \in 1..Len(frame.columns) : frame.columns[i] = name

\* position of the first column carrying the label
ColIndex(frame, name) ==
    CHOOSE i \in 1..Len(frame.columns) :
        /\ frame.columns[i] = name
        /\ \A j \in 1..(i-1) : frame.columns[j] # name

\* df[name]: the column as a sequence of cells
Column(frame, name) == [r \in 1..Len(frame.rows) |-> frame.rows[r][ColIndex(frame, name)]]

NonNull(cells) == SelectSeq(cells, LAMBDA c : ~IsNull(c))

\* ascending insertion of an integer into a sorted sequence of integers
RECURSIVE InsertSorted(_, _)
InsertSorted(x, s) ==
    IF s = <<>> THEN <<x>>
    ELSE IF x <= Head(s) THEN <<x>> \o s
    ELSE <<Head(s)>> \o InsertSorted(x, Tail(s))

RECURSIVE SortInts(_)
SortInts(s) == IF s = <<>> THEN <<>> ELSE InsertSorted(Head(s), SortInts(Tail(s)))

\* Series.median(): NaN are skipped; the middle of the sorted values, the mean
\* of the two middle ones for an even count; NaN when no value is left
Median(cells) ==
    LET vs == SortInts([i \in 1..Len(NonNull(cells)) |-> NonNull(cells)[i][1]])
        n  == Len(vs)
    IN  IF n = 0 THEN NULL
        ELSE IF n % 2 = 1 THEN Num(vs[(n + 1) \div 2])
        ELSE LET s == vs[n \div 2] + vs[n \div 2 + 1]
             IN  IF s % 2 = 0 THEN Num(s \div 2) ELSE <<s, 2>>

\* Series.fillna(value): every NaN cell becomes value (NaN again when value is NaN)
FillNa(frame, name, value) ==
    [frame EXCEPT !.rows =
        [r \in 1..Len(frame.rows) |->
            [c \in 1..Len(frame.columns) |->
                IF c = ColIndex(frame, name) /\ IsNull(frame.rows[r][c])
                THEN value ELSE frame.rows[r][c]]]]

\* df.insert(0, 'EmployeeID', range(1, 1 + len(df)))
InsertEmployeeID(frame) ==
    [columns |-> <<LblEmployeeID>> \o frame.columns,
     rows    |-> [r \in 1..Len(frame.rows) |-> <<Num(r)>> \o frame.rows[r]]]

----------------------------------------------------------------------------
(* setup_database.py                                                       *)
(* Series.fillna(..., inplace=True) on df['YearsAtCompany'] is taken to     *)
(* write into df, as the script's own message reports.  Raw labels whose    *)
(* cleaned names coincide are not among the files of the model: what to_sql *)
(* does with two columns of one name is the SQL toolkit's business.         *)

\* the loop of clean_col_names: cleaned labels, the empty ones skipped
RECURSIVE NewCols(_)
NewCols(cols) ==
    IF cols = <<>> THEN <<>>
    ELSE IF re_sub(Head(cols)) # <<>>
         THEN <<re_sub(Head(cols))>> \o NewCols(Tail(cols))
         ELSE NewCols(Tail(cols))

\* df.columns = new_cols raises ValueError (length mismatch) when a label was skipped
CleanRaises(frame) == Len(NewCols(frame.columns)) # Len(frame.columns)

clean_col_names(frame) == [frame EXCEPT !.columns = NewCols(frame.columns)]

\* Task 2 and the cleaning step before the labels are cleaned
AddUniqueID(frame) == IF ~HasColumn(frame, LblEmployeeID) THEN InsertEmployeeID(frame) ELSE frame

FillYears(frame) ==
    IF /\ HasColumn(frame, LblYearsAtCompany)
       /\ \E r \in 1..Len(frame.rows) : IsNull(Column(frame, LblYearsAtCompany)[r])
    THEN FillNa(frame, LblYearsAtCompany, Median(Column(frame, LblYearsAtCompany)))
    ELSE frame

Prepared(frame) == FillYears(AddUniqueID(frame))

NoFile == [columns |-> <<>>, rows |-> <<>>, missing |-> TRUE]

NoTable == [exists |-> FALSE, columns |-> <<>>, rows |-> <<>>, unique |-> {}]

\* df.to_sql(TABLE_NAME, engine, if_exists='replace', index=False): the table is
\* dropped and created again from the frame's columns alone, and the CREATE TABLE
\* pandas issues carries no PRIMARY KEY, UNIQUE or NOT NULL (unique: the labels
\* of the columns under a uniqueness constraint)
to_sql(frame) ==
    [exists |-> TRUE, columns |-> frame.columns, rows |-> frame.rows, unique |-> {}]

\* setup_database(): the table after the run, given the table before it
SetupResult(prior, src) ==
    IF src.missing THEN prior
    ELSE IF CleanRaises(Prepared(src)) THEN prior
    ELSE to_sql(clean_col_names(Prepared(src)))

NotRun == [status |-> "not_run", count |-> 0]

\* except FileNotFoundError
SetupFileNotFound ==
    /\ out = NotRun
    /\ csv.missing
    /\ out' = [status |-> "file_not_found", count |-> 0]
    /\ UNCHANGED <<csv, db, appVars>>

\* except Exception: the ValueError of df.columns = new_cols
SetupUnexpectedError ==
    /\ out = NotRun
    /\ ~csv.missing
    /\ CleanRaises(Prepared(csv))
    /\ out' = [status |-> "unexpected_error", count |-> 0]
    /\ UNCHANGED <<csv, db, appVars>>

\* Tasks 1 to 6 without an exception; count is SELECT COUNT(*) of the new table
SetupComplete ==
    /\ out = NotRun
    /\ ~csv.missing
    /\ ~CleanRaises(Prepared(csv))
    /\ db' = SetupResult(db, csv)
    /\ out' = [status |-> "complete", count |-> Len(db'.rows)]
    /\ UNCHANGED <<csv, appVars>>

setup_database == SetupFileNotFound \/ SetupUnexpectedError \/ SetupComplete

----------------------------------------------------------------------------
(* The CSV files of the model.  A header is a sequence of <<raw label, field>>, *)
(* a data line a record of fields; pd.read_csv gives the positional frame.      *)

HdrPlain ==
    << <<LblDepartment, "dept">>, <<LblMonthlyIncome, "income">>,
       <<LblAttrition, "attr">>, <<LblYearsAtCompany, "yac">> >>

HdrWithID == << <<LblEmployeeID, "id">> >> \o HdrPlain

HdrSpelled ==
    << <<LblDepartment, "dept">>, <<RawMonthlyIncome, "income">>,
       <<LblAttrition, "attr">>, <<RawYearsAtCompany, "yac">> >>

HdrNotes == HdrPlain \o << <<RawNotes, "notes">> >>

HdrNoYears ==
    << <<LblDepartment, "dept">>, <<LblMonthlyIncome, "income">>,
       <<LblAttrition, "attr">> >>

\* the cell of data line i (a record) under a field of the header
CellOf(rec, i, field) ==
    CASE field = "id"     -> Num(2 * i)
      [] field = "dept"   -> Str(rec.dept)
      [] field = "income" -> Num(rec.income)
      [] field = "attr"   -> Str(rec.attr)
      [] field = "yac"    -> rec.yac
      [] field = "notes"  -> Str("x")

\* pd.read_csv(CSV_FILE_PATH) of a file with this header and these data lines
read_csv(header, recs) ==
    [columns |-> [c \in 1..Len(header) |-> header[c][1]],
     rows    |-> [i \in 1..Len(recs) |->
                    [c \in 1..Len(header) |-> CellOf(recs[i], i, header[c][2])]],
     missing |-> FALSE]

SeqsUpTo(S, n) == UNION {[1..k -> S] : k \in 0..n}

IngestRecs ==
    {[dept |-> "Sales", income |-> 1000, attr |-> "No", yac |-> y] :
        y \in {NULL, Num(1), Num(2), Num(4)}}

IngestSources ==
    {NoFile} \cup
    {read_csv(h, recs) :
        h \in {HdrPlain, HdrWithID, HdrSpelled, HdrNotes, HdrNoYears},
        recs \in SeqsUpTo(IngestRecs, MaxSrcRows)}

\* tables an earlier run left behind
PriorTables ==
    {NoTable,
     SetupResult(NoTable, read_csv(HdrPlain,
        << [dept |-> "HR", income |-> 3000, attr |-> "Yes", yac |-> NULL],
           [dept |-> "HR", income |-> 3000, attr |-> "Yes", yac |-> Num(6)] >>))}

Sessions == 1..NumSessions

NoFrame == [columns |-> <<>>, rows |-> <<>>]

NoKpi == [raised |-> FALSE, total_employees |-> 0, avg_income |-> 0, attrition_rate |-> <<0, 1>>]

NoStmt == [sql |-> "none", id |-> 0, income |-> 0]

AppIdle ==
    /\ pc = [s \in Sessions |-> "start"]
    /\ submitted = [s \in Sessions |-> "none"]
    /\ department = [s \in Sessions |-> "All"]
    /\ df = [s \in Sessions |-> NoFrame]
    /\ df_filtered = [s \in Sessions |-> NoFrame]
    /\ kpi = [s \in Sessions |-> NoKpi]
    /\ msg = [s \in Sessions |-> "none"]
    /\ stmt = [s \in Sessions |-> NoStmt]

InitIngest ==
    /\ csv \in IngestSources
    /\ db \in PriorTables
    /\ out = NotRun
    /\ AppIdle

NextIngest == setup_database

SpecIngest == InitIngest /\ [][NextIngest]_vars

----------------------------------------------------------------------------
(* app.py: the data access layer and the pure parts of a script run *)

\* run_query("SELECT * FROM employees")
run_query(table) == [columns |-> table.columns, rows |-> table.rows]

\* the values of a column that holds no NULL
Values(frame, name) == {Column(frame, name)[r][1] : r \in 1..Len(frame.rows)}

\* df['Department'].unique() (the order of the options is not modelled)
Departments(frame) == Values(frame, LblDepartment)

\* the comparison of line 62 inverted
Filter_Inverted(frame, dept) ==
    IF dept # "All"
    THEN [columns |-> frame.columns,
          rows    |-> SelectSeq(frame.rows,
                        LAMBDA row : row[ColIndex(frame, LblDepartment)] # Str(dept))]
    ELSE [columns |-> frame.columns, rows |-> frame.rows]

\* lines 61-64: df[df['Department'] == department], or df.copy() for 'All'
Filter(frame, dept) ==
    IF dept # "All"
    THEN [columns |-> frame.columns,
          rows    |-> SelectSeq(frame.rows,
                        LAMBDA row : row[ColIndex(frame, LblDepartment)] = Str(dept))]
    ELSE [columns |-> frame.columns, rows |-> frame.rows]

\* df['EmployeeID'].max() + 1
MinNewID(frame) ==
    (CHOOSE m \in Values(frame, LblEmployeeID) :
        \A x \in Values(frame, LblEmployeeID) : x <= m) + 1

RECURSIVE SumCells(_)
SumCells(cells) == IF cells = <<>> THEN 0 ELSE Head(cells)[1] + SumCells(Tail(cells))

\* lines 120-122.  Series.mean() skips NaN and is NaN over no value; int(NaN)
\* raises ValueError; int() truncates; the rate is the exact fraction <<num, den>>
KeyMetrics(frame) ==
    LET total   == Len(frame.rows)
        incomes == NonNull(Column(frame, LblMonthlyIncome))
        yes     == Len(SelectSeq(Column(frame, LblAttrition), LAMBDA c : c = Str("Yes")))
    IN  IF Len(incomes) = 0
        THEN [raised |-> TRUE, total_employees |-> total, avg_income |-> 0,
              attrition_rate |-> <<0, 1>>]
        ELSE [raised |-> FALSE, total_employees |-> total,
              avg_income |-> SumCells(incomes) \div Len(incomes),
              attrition_rate |-> IF total > 0 THEN <<yes * 100, total>> ELSE <<0, 1>>]

\* the row of INSERT INTO employees (EmployeeID, ..., Department, ...,
\* MonthlyIncome, Attrition, ...) VALUES (?, ..., 'No', ...): the columns the
\* statement does not name are NULL
InsertedRow(table, new_id, new_dept, new_income) ==
    [c \in 1..Len(table.columns) |->
        CASE table.columns[c] = LblEmployeeID    -> Num(new_id)
          [] table.columns[c] = LblDepartment    -> Str(new_dept)
          [] table.columns[c] = LblMonthlyIncome -> Num(new_income)
          [] table.columns[c] = LblAttrition     -> Str("No")
          [] OTHER                               -> NULL]

\* sqlite raises IntegrityError when the row repeats a value of a column under a
\* uniqueness constraint
ViolatesUnique(table, row) ==
    \E c \in 1..Len(table.columns) :
        /\ table.columns[c] \in table.unique
        /\ \E r \in 1..Len(table.rows) : table.rows[r][c] = row[c]

\* cursor.execute of the INSERT, then conn.commit()
ExecuteInsert(table, row) == [table EXCEPT !.rows = Append(table.rows, row)]

\* UPDATE employees SET MonthlyIncome = ? WHERE EmployeeID = ?, then conn.commit()
ExecuteUpdate(table, income, emp) ==
    [table EXCEPT !.rows =
        [r \in 1..Len(table.rows) |->
            IF table.rows[r][ColIndex(table, LblEmployeeID)] = Num(emp)
            THEN [table.rows[r] EXCEPT ![ColIndex(table, LblMonthlyIncome)] = Num(income)]
            ELSE table.rows[r]]]

\* number_input("Monthly Income", min_value=1000, step=100)
MinIncome == 1000

IncomeStep == 100

Incomes == {MinIncome, MinIncome + IncomeStep}

----------------------------------------------------------------------------
(* app.py: one script run per user interaction, per session *)

\* A run's variables and the elements it drew end with it: the next run starts
\* from the widget values alone
NewRun(s) ==
    /\ pc' = [pc EXCEPT ![s] = "start"]
    /\ df' = [df EXCEPT ![s] = NoFrame]
    /\ df_filtered' = [df_filtered EXCEPT ![s] = NoFrame]
    /\ kpi' = [kpi EXCEPT ![s] = NoKpi]
    /\ msg' = [msg EXCEPT ![s] = "none"]
    /\ stmt' = [stmt EXCEPT ![s] = NoStmt]

\* lines 43-48 with the table missing: st.error, st.info, st.stop()
LoadFailed(s) ==
    /\ pc[s] = "start"
    /\ ~db.exists
    /\ pc' = [pc EXCEPT ![s] = "stopped"]
    /\ msg' = [msg EXCEPT ![s] = "load_failed"]
    /\ UNCHANGED <<csv, db, out, submitted, department, df, df_filtered, kpi, stmt>>

\* lines 43-64: the whole table is read, then filtered by the selectbox value
LoadData(s) ==
    /\ pc[s] = "start"
    /\ db.exists
    /\ df' = [df EXCEPT ![s] = run_query(db)]
    /\ df_filtered' = [df_filtered EXCEPT ![s] = Filter(run_query(db), department[s])]
    /\ pc' = [pc EXCEPT ![s] = "sidebar"]
    /\ UNCHANGED <<csv, db, out, submitted, department, kpi, msg, stmt>>

\* line 69 over an empty table: max() is NaN and st.number_input refuses the
\* float min_value beside the integer step; the run ends with that exception
SidebarRaises(s) ==
    /\ pc[s] = "sidebar"
    /\ Len(df[s].rows) = 0
    /\ pc' = [pc EXCEPT ![s] = "crashed"]
    /\ submitted' = [submitted EXCEPT ![s] = "none"]
    /\ UNCHANGED <<csv, db, out, department, df, df_filtered, kpi, msg, stmt>>

\* lines 67-113, no form submitted
SidebarIdle(s) ==
    /\ pc[s] = "sidebar"
    /\ Len(df[s].rows) > 0
    /\ submitted[s] = "none"
    /\ pc' = [pc EXCEPT ![s] = "main"]
    /\ UNCHANGED <<csv, db, out, submitted, department, df, df_filtered, kpi, msg, stmt>>

\* lines 76-93, execute_query returning: IntegrityError is reported, otherwise
\* the row is committed and st.rerun() starts the next run
AddEmployee(s) ==
    /\ pc[s] = "sidebar"
    /\ Len(df[s].rows) > 0
    /\ submitted[s] = "add"
    /\ Len(db.rows) < MaxRows
    /\ \E new_id \in MinNewID(df[s]) .. (MinNewID(df[s]) + IdSlack),
          new_dept \in Departments(df[s]), new_income \in Incomes :
          LET row == InsertedRow(db, new_id, new_dept, new_income) IN
          /\ stmt' = [stmt EXCEPT ![s] = [sql |-> "INSERT", id |-> new_id, income |-> new_income]]
          /\ IF new_id = 0
             THEN /\ msg' = [msg EXCEPT ![s] = "fill_all_fields"]
                  /\ pc' = [pc EXCEPT ![s] = "main"]
                  /\ UNCHANGED <<db>>
             ELSE IF ViolatesUnique(db, row)
             THEN /\ msg' = [msg EXCEPT ![s] = "already_exists"]
                  /\ pc' = [pc EXCEPT ![s] = "main"]
                  /\ UNCHANGED <<db>>
             ELSE /\ db' = ExecuteInsert(db, row)
                  /\ msg' = [msg EXCEPT ![s] = "added"]
                  /\ pc' = [pc EXCEPT ![s] = "rerun"]
    /\ submitted' = [submitted EXCEPT ![s] = "none"]
    /\ UNCHANGED <<csv, out, department, df, df_filtered, kpi>>

\* lines 92-93: sqlite raises another error (the database is locked, the disk
\* fails); nothing is written and the run goes on
AddEmployeeError(s) ==
    /\ pc[s] = "sidebar"
    /\ Len(df[s].rows) > 0
    /\ submitted[s] = "add"
    /\ \E new_id \in MinNewID(df[s]) .. (MinNewID(df[s]) + IdSlack) :
          stmt' = [stmt EXCEPT ![s] = [sql |-> "INSERT", id |-> new_id, income |-> MinIncome]]
    /\ msg' = [msg EXCEPT ![s] = "error_occurred"]
    /\ pc' = [pc EXCEPT ![s] = "main"]
    /\ submitted' = [submitted EXCEPT ![s] = "none"]
    /\ UNCHANGED <<csv, db, out, department, df, df_filtered, kpi>>

\* lines 105-111 without the st.rerun() of line 111: the run goes on with the
\* frame it loaded before the update
UpdateIncome_NoRerun(s) ==
    /\ pc[s] = "sidebar"
    /\ Len(df[s].rows) > 0
    /\ submitted[s] = "update"
    /\ \E emp_to_update \in Values(df[s], LblEmployeeID), new_monthly_income \in Incomes :
          /\ stmt' = [stmt EXCEPT ![s] =
                [sql |-> "UPDATE", id |-> emp_to_update, income |-> new_monthly_income]]
          /\ db' = ExecuteUpdate(db, new_monthly_income, emp_to_update)
    /\ msg' = [msg EXCEPT ![s] = "updated"]
    /\ pc' = [pc EXCEPT ![s] = "main"]
    /\ submitted' = [submitted EXCEPT ![s] = "none"]
    /\ UNCHANGED <<csv, out, department, df, df_filtered, kpi>>

\* lines 105-111, execute_query returning: committed, then st.rerun()
UpdateIncome(s) ==
    /\ pc[s] = "sidebar"
    /\ Len(df[s].rows) > 0
    /\ submitted[s] = "update"
    /\ \E emp_to_update \in Values(df[s], LblEmployeeID), new_monthly_income \in Incomes :
          /\ stmt' = [stmt EXCEPT ![s] =
                [sql |-> "UPDATE", id |-> emp_to_update, income |-> new_monthly_income]]
          /\ db' = ExecuteUpdate(db, new_monthly_income, emp_to_update)
    /\ msg' = [msg EXCEPT ![s] = "updated"]
    /\ pc' = [pc EXCEPT ![s] = "rerun"]
    /\ submitted' = [submitted EXCEPT ![s] = "none"]
    /\ UNCHANGED <<csv, out, department, df, df_filtered, kpi>>

\* lines 112-113: execute_query raises; nothing is written and the run goes on
UpdateIncomeError(s) ==
    /\ pc[s] = "sidebar"
    /\ Len(df[s].rows) > 0
    /\ submitted[s] = "update"
    /\ \E emp_to_update \in Values(df[s], LblEmployeeID) :
          stmt' = [stmt EXCEPT ![s] =
                [sql |-> "UPDATE", id |-> emp_to_update, income |-> MinIncome]]
    /\ msg' = [msg EXCEPT ![s] = "update_failed"]
    /\ pc' = [pc EXCEPT ![s] = "main"]
    /\ submitted' = [submitted EXCEPT ![s] = "none"]
    /\ UNCHANGED <<csv, db, out, department, df, df_filtered, kpi>>

\* lines 87, 111: st.rerun() ends the run and the script starts again
Rerun(s) ==
    /\ pc[s] = "rerun"
    /\ NewRun(s)
    /\ UNCHANGED <<csv, db, out, submitted, department>>

\* lines 115-247: the key metrics, then the tabs
MainDashboard(s) ==
    /\ pc[s] = "main"
    /\ kpi' = [kpi EXCEPT ![s] = KeyMetrics(df_filtered[s])]
    /\ pc' = [pc EXCEPT ![s] =
            IF KeyMetrics(df_filtered[s]).raised THEN "crashed" ELSE "rendered"]
    /\ UNCHANGED <<csv, db, out, submitted, department, df, df_filtered, msg, stmt>>

\* the user reloads the page
Refresh(s) ==
    /\ pc[s] \in {"rendered", "stopped", "crashed"}
    /\ NewRun(s)
    /\ UNCHANGED <<csv, db, out, submitted, department>>

\* the user picks another option of the department selectbox (lines 55-58)
SelectDepartment(s) ==
    /\ pc[s] = "rendered"
    /\ \E d \in {"All"} \cup Departments(df[s]) :
          /\ d # department[s]
          /\ department' = [department EXCEPT ![s] = d]
    /\ NewRun(s)
    /\ UNCHANGED <<csv, db, out, submitted>>

\* the user presses "Add Employee" or "Update Income" (lines 75, 104)
SubmitForm(s) ==
    /\ pc[s] = "rendered"
    /\ \E b \in {"add", "update"} : submitted' = [submitted EXCEPT ![s] = b]
    /\ NewRun(s)
    /\ UNCHANGED <<csv, db, out, department>>

----------------------------------------------------------------------------
(* The dashboard over a table the ingestion left *)

DashRecs ==
    {[dept |-> "Sales", income |-> 1000, attr |-> "Yes", yac |-> Num(2)],
     [dept |-> "HR",    income |-> 1100, attr |-> "No",  yac |-> NULL]}

DashSources ==
    {NoFile} \cup
    {read_csv(h, recs) :
        h \in {HdrPlain, HdrWithID}, recs \in SeqsUpTo(DashRecs, MaxDashRows)}

\* what setup_database prints for the source
SetupOut(src) ==
    IF src.missing THEN [status |-> "file_not_found", count |-> 0]
    ELSE IF CleanRaises(Prepared(src)) THEN [status |-> "unexpected_error", count |-> 0]
    ELSE [status |-> "complete", count |-> Len(SetupResult(NoTable, src).rows)]

Init ==
    /\ csv \in DashSources
    /\ db = SetupResult(NoTable, csv)
    /\ out = SetupOut(csv)
    /\ AppIdle

\* a script run of session s, and the form buttons
Run(s) ==
    \/ LoadFailed(s)
    \/ LoadData(s)
    \/ SidebarRaises(s)
    \/ SidebarIdle(s)
    \/ AddEmployee(s)
    \/ AddEmployeeError(s)
    \/ UpdateIncome(s)
    \/ UpdateIncomeError(s)
    \/ Rerun(s)
    \/ MainDashboard(s)
    \/ Refresh(s)
    \/ SubmitForm(s)

\* one browser session using every widget of the dashboard
Next == Run(1) \/ SelectDepartment(1)

Spec == Init /\ [][Next]_vars

\* several browser sessions writing to the one table
RaceSources ==
    {NoFile} \cup
    {read_csv(HdrWithID, recs) :
        recs \in SeqsUpTo({[dept |-> "Sales", income |-> 1000, attr |-> "Yes", yac |-> Num(2)]}, 1)}

InitRace ==
    /\ csv \in RaceSources
    /\ db = SetupResult(NoTable, csv)
    /\ out = SetupOut(csv)
    /\ AppIdle

NextRace == \E s \in Sessions : Run(s)

SpecRace == InitRace /\ [][NextRace]_vars

----------------------------------------------------------------------------
(* Claims about the ingestion, under SpecIngest *)

SetupRan == out.status # "not_run"

\* a raw label of the source file that is empty once cleaned
HasEmptyLabel(src) == \E c \in 1..Len(src.columns) : re_sub(src.columns[c]) = <<>>

\* C4: for every non-empty source table and any prior contents of the
\* destination, the ingestion leaves the employees table with as many rows as
\* the source has.
C4_RowCountEqualsSource ==
    (SetupRan /\ ~csv.missing /\ Len(csv.rows) > 0)
        => (db.exists /\ Len(db.rows) = Len(csv.rows))

\* the k-th smallest of the values of a sequence of non-null integer cells
IsKthSmallest(cells, k, x) ==
    /\ Cardinality({i \in 1..Len(cells) : cells[i][1] < x}) < k
    /\ Cardinality({i \in 1..Len(cells) : cells[i][1] <= x}) >= k

\* m is the median of the non-null cells: the mean of the lower and the upper
\* middle value, stated by counting and not by sorting
IsMedianOf(m, cells) ==
    LET n  == Len(cells)
        m2 == IF m[2] = 1 THEN 2 * m[1] ELSE m[1]
    IN  /\ n > 0
        /\ m # NULL
        /\ m[2] \in {1, 2}
        /\ \E i, j \in 1..n :
              /\ IsKthSmallest(cells, (n + 1) \div 2, cells[i][1])
              /\ IsKthSmallest(cells, n \div 2 + 1, cells[j][1])
              /\ m2 = cells[i][1] + cells[j][1]
              /\ (m[2] = 2) <=> ((cells[i][1] + cells[j][1]) % 2 = 1)

\* the persisted years-at-company column is the source's with every missing
\* cell replaced by the median of the source's non-missing cells
YearsFilled ==
    /\ db.exists
    /\ HasColumn(db, LblYearsAtCompany)
    /\ Len(db.rows) = Len(csv.rows)
    /\ \A r \in 1..Len(csv.rows) :
          LET before == Column(csv, LblYearsAtCompany)[r]
              after  == Column(db, LblYearsAtCompany)[r]
          IN  /\ after # NULL
              /\ before # NULL => after = before
              /\ before = NULL =>
                    IsMedianOf(after, NonNull(Column(csv, LblYearsAtCompany)))

\* C5: after a completed ingestion of any source that has a years-at-company
\* column, the persisted column has no missing value: a cell missing in the
\* source holds the median of the source's non-missing values, a present cell
\* keeps its value.
C5_YearsFilledWithMedian ==
    (out.status = "complete" /\ HasColumn(csv, LblYearsAtCompany)) => YearsFilled

\* the positions of the source's labels that are not empty once cleaned
RECURSIVE KeptPositions(_, _)
KeptPositions(cols, c) ==
    IF c > Len(cols) THEN <<>>
    ELSE IF re_sub(cols[c]) = <<>> THEN KeptPositions(cols, c + 1)
    ELSE <<c>> \o KeptPositions(cols, c + 1)

\* C7: when a raw label has only characters outside [0-9a-zA-Z_], the label is
\* dropped and the ingestion still completes: all source rows are persisted,
\* the remaining columns keep their order under their cleaned names, and the
\* dropped label's data column is excluded.
C7_EmptyLabelDropped ==
    (SetupRan /\ ~csv.missing /\ HasEmptyLabel(csv)) =>
        LET kept == KeptPositions(Prepared(csv).columns, 1) IN
        /\ out.status = "complete"
        /\ db.exists
        /\ Len(db.rows) = Len(csv.rows)
        /\ db.columns = [k \in 1..Len(kept) |-> re_sub(Prepared(csv).columns[kept[k]])]
        /\ \A r \in 1..Len(db.rows) :
              db.rows[r] = [k \in 1..Len(kept) |-> Prepared(csv).rows[r][kept[k]]]

----------------------------------------------------------------------------
(* Claims about the dashboard *)

IdCol(table) == ColIndex(table, LblEmployeeID)

IncomeCol(table) == ColIndex(table, LblMonthlyIncome)

\* the run of session s has loaded and filtered its frame
Loaded(s) == pc[s] \in {"sidebar", "main", "rendered", "rerun", "crashed"}

\* C1 (SpecRace): an add-employee INSERT whose EmployeeID is already in the
\* persisted table is answered "already exists" and leaves the row count as
\* it was.
C1_DuplicateInsertRejected ==
    [][\A s \in Sessions :
        ( /\ pc[s] = "sidebar"
          /\ msg'[s] \in {"added", "already_exists"}
          /\ stmt'[s].sql = "INSERT"
          /\ stmt'[s].id \in Values(db, LblEmployeeID) )
        => (msg'[s] = "already_exists" /\ Len(db'.rows) = Len(db.rows))]_vars

\* C2 (SpecRace): no two records of the employees table have the same
\* EmployeeID, whatever inserts and updates the sessions issued.
C2_UniqueEmployeeID ==
    db.exists =>
        \A i, j \in 1..Len(db.rows) :
            i # j => db.rows[i][IdCol(db)] # db.rows[j][IdCol(db)]

\* C3 (SpecRace): an income update for an existing EmployeeID e with value v
\* sets MonthlyIncome = v in one record carrying e and changes nothing else:
\* no other record, no other field, not the row count.
C3_UpdateChangesOneRecord ==
    [][\A s \in Sessions :
        ( /\ pc[s] = "sidebar"
          /\ msg'[s] = "updated"
          /\ stmt'[s].id \in Values(db, LblEmployeeID) )
        => /\ Len(db'.rows) = Len(db.rows)
           /\ db'.columns = db.columns
           /\ \E k \in 1..Len(db.rows) :
                 /\ db.rows[k][IdCol(db)] = Num(stmt'[s].id)
                 /\ db'.rows[k] =
                       [db.rows[k] EXCEPT ![IncomeCol(db)] = Num(stmt'[s].income)]
                 /\ \A j \in 1..Len(db.rows) : j # k => db'.rows[j] = db.rows[j]]_vars

NoNullYears ==
    /\ db.exists
    /\ HasColumn(db, LblYearsAtCompany)
    /\ \A r \in 1..Len(db.rows) : Column(db, LblYearsAtCompany)[r] # NULL

\* C6 (Spec): once the ingestion left no record with a missing years-at-company
\* value, no insert and no update brings one in.
C6_YearsNeverNull == [][NoNullYears => NoNullYears']_vars

\* C8 (Spec): when the filtered view of a run has zero rows, the key metrics
\* are computed without an exception, with total 0 and attrition rate 0, and
\* the run does not end in an exception.
C8_EmptySelectionMetrics ==
    \A s \in Sessions :
        (Loaded(s) /\ Len(df_filtered[s].rows) = 0) =>
            /\ pc[s] # "crashed"
            /\ ~KeyMetrics(df_filtered[s]).raised
            /\ KeyMetrics(df_filtered[s]).total_employees = 0
            /\ KeyMetrics(df_filtered[s]).attrition_rate[1] = 0

\* the positions of the rows of a frame whose Department is d
DeptPositions(frame, d) ==
    {i \in 1..Len(frame.rows) : frame.rows[i][ColIndex(frame, LblDepartment)] = Str(d)}

\* sub holds the rows of frame at the positions P, in their order in frame
IsRowsAt(sub, frame, P) ==
    /\ Len(sub) = Cardinality(P)
    /\ \A i \in P : sub[Cardinality({j \in P : j <= i})] = frame.rows[i]

\* C9 (Spec): 'All' gives a filtered view with exactly the rows of the loaded
\* table in their order; a department D gives exactly the rows whose Department
\* is D, in their original relative order; the loaded table stays as read.
C9_FilterExact ==
    \A s \in Sessions :
        (Loaded(s) /\ pc[s] # "rerun") =>
            /\ df[s] = [columns |-> db.columns, rows |-> db.rows]
            /\ df_filtered[s].columns = df[s].columns
            /\ department[s] = "All" => df_filtered[s].rows = df[s].rows
            /\ department[s] # "All" =>
                  IsRowsAt(df_filtered[s].rows, df[s], DeptPositions(df[s], department[s]))

C9_Witness ==
    /\ pc[1] = "rendered"
    /\ department[1] = "Sales"
    /\ Len(df_filtered[1].rows) = 2
    /\ Len(df[1].rows) = 3
    /\ df[1].rows[2][ColIndex(df[1], LblDepartment)] = Str("HR")

\* the statement of a successful write is in the table
Committed(table, st) ==
    IF st.sql = "INSERT"
    THEN /\ Len(table.rows) > 0
         /\ table.rows[Len(table.rows)][IdCol(table)] = Num(st.id)
         /\ table.rows[Len(table.rows)][IncomeCol(table)] = Num(st.income)
    ELSE \A r \in 1..Len(table.rows) :
            table.rows[r][IdCol(table)] = Num(st.id)
                => table.rows[r][IncomeCol(table)] = Num(st.income)

\* C10 (Spec): every run starts by reading the whole table; a successful insert
\* or update is committed and followed by a new run, so that a rendered view
\* holds the table with that write; a failed write is reported, leaves the
\* table as it was and lets the rest of the view render.
C10_ViewReflectsStore ==
    [][\A s \in Sessions :
        /\ (pc[s] = "start" /\ pc'[s] = "sidebar")
              => df'[s] = [columns |-> db.columns, rows |-> db.rows]
        /\ (pc[s] = "sidebar" /\ msg'[s] \in {"added", "updated"})
              => (pc'[s] = "rerun" /\ Committed(db', stmt'[s]))
        /\ (pc[s] = "rerun" /\ pc'[s] # "rerun") => pc'[s] = "start"
        /\ (pc[s] = "sidebar" /\ msg'[s] \in {"error_occurred", "update_failed"})
              => (db' = db /\ pc'[s] = "main")
        /\ (pc[s] = "main" /\ pc'[s] # "main") => pc'[s] = "rendered"
        /\ pc'[s] = "rendered" => df'[s] = [columns |-> db'.columns, rows |-> db'.rows]]_vars

C10_Witness ==
    /\ pc[1] = "rendered"
    /\ Len(db.rows) > Len(csv.rows)
    /\ df[1].rows = db.rows
    /\ \E r \in 1..Len(csv.rows) :
          db.rows[r][IncomeCol(db)] # Prepared(csv).rows[r][IncomeCol(db)]

====
